---- MODULE Spec2Model ----
(***************************************************************************)
(* A model of MandelbrotSet (src/src/mandelbrot.rs): the viewport, the     *)
(* iteration field, the palette, the frame buffer and the dirty flags,     *)
(* and of the pixel buffer main.rs draws into, with one action per event   *)
(* of main.rs's loop (redraw, zoom, palette, reset, window resized).  draw *)
(* is split at its three blocks (recalculate, redraw, copy) so that their  *)
(* order is visible; nothing else runs while a draw is in progress,        *)
(* because draw borrows the state exclusively (&mut self) and the event    *)
(* loop is single-threaded.  A draw that panics, at a palette index in its *)
(* redraw block or at its copy, ends the run.                              *)
(*                                                                         *)
(* Numbers.  An f64 is modelled bit for bit: its IEEE 754 encoding, with   *)
(* addition, subtraction, multiplication and division rounding to nearest, *)
(* ties to even, as the hardware does, subnormals, signed zeros,           *)
(* infinities and NaN included.                                            *)
(*                                                                         *)
(* The escape-time loop, the gradients of the palette crate and the colour *)
(* blend are not evaluated; their results are kept as terms over their     *)
(* inputs (see test_pixel, GradientTake and draw_to_frame_buffer).  Where  *)
(* the code's outcome depends on such a result (the palette index of an    *)
(* escape time), every outcome the result admits is a step of the model.   *)
(* A term says what a value was made from: equal terms are equal values,   *)
(* and unequal terms are values made from different inputs, whose bytes    *)
(* can still be the same (a chunk is black for an entry of max_iterations  *)
(* under every palette).                                                   *)
(***************************************************************************)
EXTENDS Integers, Sequences, FiniteSets, TLC

(* ------------------------------ bounds -------------------------------- *)

\* Widths and heights range over 1..MaxDim (0..MaxDim for malformed input).
MaxDim == 2
\* At most MaxOps zoom/resize commands in one run.
MaxOps == 1
\* At most NumPools randomize_palette calls in one run, each with a pool of
\* its own.
NumPools == 2
\* max_iterations, which new sets to 1000.0: the model takes a small cap, the
\* code using the value only as the palette's length and as the evaluator's
\* iteration cap, both kept relative to it here.
MaxIterations == 3

(* --------------------------- program constants ------------------------ *)

\* vec![0.0; 15]
PoolLen == 15

(* ------------------------------ numbers ------------------------------- *)

\* A natural below 2^130, as its ten digits in base 2^13, lowest first.
Base == 8192
LimbBits == 13
Limbs == 10

Pow2(k) == <<1, 2, 4, 8, 16, 32, 64, 128, 256, 512, 1024, 2048, 4096, 8192>>[k + 1]

Max(i, j) == IF i > j THEN i ELSE j

Wide(D) == <<D[1], D[2], D[3], D[4], D[5], D[6], D[7], D[8], D[9], D[10]>>

\* Digit i of a, zero outside 1..Limbs.
Limb(a, i) == IF i >= 1 /\ i <= Limbs THEN a[i] ELSE 0

WZero == <<0, 0, 0, 0, 0, 0, 0, 0, 0, 0>>
WOne == <<1, 0, 0, 0, 0, 0, 0, 0, 0, 0>>

\* A natural below 2^31.
FromNat(n) == <<n % Base, (n \div Base) % Base, n \div (Base * Base), 0, 0, 0, 0, 0, 0, 0>>

\* a < b
WLess(a, b) == \E i \in 1..Limbs : a[i] < b[i] /\ \A k \in (i + 1)..Limbs : a[k] = b[k]

\* a + b: a carry enters digit i from the nearest lower digit whose sum is
\* not Base - 1, if that sum is Base or more.
WAdd(a, b) ==
    LET carry(i) == \E j \in 1..(i - 1) : /\ a[j] + b[j] >= Base
                                          /\ \A k \in (j + 1)..(i - 1) : a[k] + b[k] = Base - 1
        D(i) == (a[i] + b[i] + (IF carry(i) THEN 1 ELSE 0)) % Base
    IN  Wide([dg \in 1..Limbs |-> D(dg)])

\* a - b, for a >= b.
WSub(a, b) ==
    LET borrow(i) == \E j \in 1..(i - 1) : /\ a[j] < b[j]
                                           /\ \A k \in (j + 1)..(i - 1) : a[k] = b[k]
        D(i) == (a[i] - b[i] - (IF borrow(i) THEN 1 ELSE 0)) % Base
    IN  Wide([dg \in 1..Limbs |-> D(dg)])

\* a * m, for m < Base.
WMulSmall(a, m) ==
    LET Lo(i) == (a[i] * m) % Base
        Hi(i) == (Limb(a, i - 1) * m) \div Base
    IN  WAdd(Wide([dg \in 1..Limbs |-> Lo(dg)]), Wide([dg \in 1..Limbs |-> Hi(dg)]))

\* a * b, for a and b below 2^65.
WMul(a, b) ==
    LET col(k) == a[1] * Limb(b, k) + a[2] * Limb(b, k - 1) + a[3] * Limb(b, k - 2)
                  + a[4] * Limb(b, k - 3) + a[5] * Limb(b, k - 4)
        D0(i) == col(i) % Base
        D1(i) == (col(i - 1) \div Base) % Base
        D2(i) == col(i - 2) \div (Base * Base)
    IN  WAdd(WAdd(Wide([dg \in 1..Limbs |-> D0(dg)]), Wide([dg \in 1..Limbs |-> D1(dg)])), Wide([dg \in 1..Limbs |-> D2(dg)]))

\* a * 2^k
WShl(a, k) ==
    LET n == k \div LimbBits
        r == k % LimbBits
        D(i) == ((Limb(a, i - n) * Pow2(r)) % Base) + (Limb(a, i - n - 1) \div Pow2(LimbBits - r))
    IN  Wide([dg \in 1..Limbs |-> D(dg)])

\* floor(a / 2^k)
WShr(a, k) ==
    LET n == k \div LimbBits
        r == k % LimbBits
        D(i) == (Limb(a, i + n) \div Pow2(r)) + (Limb(a, i + n + 1) % Pow2(r)) * Pow2(LimbBits - r)
    IN  Wide([dg \in 1..Limbs |-> D(dg)])

\* The number of bits of a: 0 for 0, else 1 + floor(log2 a).
BitLen(a) ==
    IF a = WZero THEN 0
    ELSE LET top == CHOOSE i \in 1..Limbs : a[i] # 0 /\ \A k \in (i + 1)..Limbs : a[k] = 0
         IN  LimbBits * (top - 1) + (CHOOSE n \in 1..LimbBits : Pow2(n - 1) <= a[top] /\ a[top] < Pow2(n))

\* Bit k of a (bit 0 is the lowest).
Bit(a, k) == (Limb(a, k \div LimbBits + 1) \div Pow2(k % LimbBits)) % 2

\* Whether a has a set bit below bit k.
AnyBitBelow(a, k) ==
    \/ \E i \in 1..Limbs : i <= k \div LimbBits /\ a[i] # 0
    \/ Limb(a, k \div LimbBits + 1) % Pow2(k % LimbBits) # 0

\* One digit of a long division by d, 2^64 <= d < 2^65, from the remainder
\* times Base (ru), an estimate q0 of the digit that is never too small and
\* at most 2 too large, and t0 = q0 * d: <<digit, remainder left>>.
DivRemainder(ru, d, q0, t0) ==
    IF ~WLess(ru, t0) THEN <<q0, WSub(ru, t0)>>
    ELSE IF ~WLess(ru, WSub(t0, d)) THEN <<q0 - 1, WSub(ru, WSub(t0, d))>>
    ELSE <<q0 - 2, WSub(ru, WSub(WSub(t0, d), d))>>

\* The estimate is the quotient of the two top digits of ru by the top digit
\* of d, capped at Base - 1.
DivTrial(ru, d) ==
    LET est == (ru[6] * Base + ru[5]) \div d[5]
    IN  DivRemainder(ru, d, IF est > Base - 1 THEN Base - 1 ELSE est,
                     WMulSmall(d, IF est > Base - 1 THEN Base - 1 ELSE est))

\* <<floor(r * Base / d), the remainder left>> for a remainder r < d.
DivStep(r, d) == DivTrial(WShl(r, LimbBits), d)

\* One more digit: st is <<the digits so far, highest first, the remainder>>.
DivPush(digits, s) == <<Append(digits, s[1]), s[2]>>
DivNext(st, d) == DivPush(st[1], DivStep(st[2], d))

\* k more digits.
RECURSIVE DivDigits(_, _, _)
DivDigits(st, d, k) == IF k = 0 THEN st ELSE DivNext(DivDigits(st, d, k - 1), d)

\* The quotient of five digits, lowest first, and whether a remainder is left.
DivResult(st) ==
    << <<st[1][5], st[1][4], st[1][3], st[1][2], st[1][1], 0, 0, 0, 0, 0>>, st[2] # WZero >>

\* <<floor(a * 2^56 / b), whether a remainder is left>> for a and b of
\* exactly 53 bits; the quotient has 56 or 57 bits.
WDiv(a, b) == DivResult(DivDigits(<< <<>>, WShl(a, 3) >>, WShl(b, 12), 5))

\* An f64 is its IEEE 754 binary64 encoding <<sign, exponent, hi, lo>>: the
\* sign bit, the 11 exponent bits and the 52 fraction bits, these as two
\* halves of 26 bits.  Its value is (-1)^sign * Significand * 2^Exponent.
Half == 67108864
ExpMax == 2047
ExpBias == 1075
SigBits == 53

F64(s, e, hi, lo) == <<s, e, hi, lo>>

NaN == F64(0, ExpMax, Half \div 2, 0)
Inf(s) == F64(s, ExpMax, 0, 0)
PosInf == Inf(0)
NegInf == Inf(1)
SignedZero(s) == F64(s, 0, 0, 0)
Zero == SignedZero(0)

IsNaN(a) == a[2] = ExpMax /\ (a[3] # 0 \/ a[4] # 0)
IsInf(a) == a[2] = ExpMax /\ a[3] = 0 /\ a[4] = 0
IsFinite(a) == a[2] < ExpMax
IsZero(a) == a[2] = 0 /\ a[3] = 0 /\ a[4] = 0

Significand(a) ==
    <<a[4] % Base, a[4] \div Base, a[3] % Base, a[3] \div Base,
      IF a[2] = 0 THEN 0 ELSE 1, 0, 0, 0, 0, 0>>

Exponent(a) == (IF a[2] = 0 THEN 1 ELSE a[2]) - ExpBias

\* The f64 of sign s and significand q < 2^53 at exponent e >= -1074, with
\* q >= 2^52 unless e = -1074; infinity when e is out of range.
Encode(s, q, e) ==
    IF q[5] = 0 THEN F64(s, 0, q[4] * Base + q[3], q[2] * Base + q[1])
    ELSE IF e + ExpBias >= ExpMax THEN Inf(s)
    ELSE F64(s, e + ExpBias, q[4] * Base + q[3], q[2] * Base + q[1])

\* q or, when it has reached 2^53, its half one exponent up.
RoundCarried(s, q, e) ==
    IF q[5] > 1 THEN Encode(s, WShr(q, 1), e + 1) ELSE Encode(s, q, e)

\* q0 rounded up when the part cut off is more than half a unit (half and
\* sticky), or is half a unit and q0 is odd.
RoundTo(s, q0, half, sticky, e) ==
    RoundCarried(s, IF half /\ (sticky \/ Bit(q0, 0) = 1) THEN WAdd(q0, WOne) ELSE q0, e)

\* m cut by shift bits, to 53 bits or to the least exponent.
RoundBy(s, m, e, shift) ==
    IF shift <= 0 THEN Encode(s, WShl(m, -shift), e + shift)
    ELSE IF shift > LimbBits * Limbs THEN SignedZero(s)
    ELSE RoundTo(s, WShr(m, shift), Bit(m, shift - 1) = 1, AnyBitBelow(m, shift - 1),
                 e + shift)

\* The f64 nearest to (-1)^s * m * 2^e, ties to the even significand.
Round(s, m, e) ==
    IF m = WZero THEN SignedZero(s)
    ELSE RoundBy(s, m, e, Max(BitLen(m) - SigBits, (1 - ExpBias) - e))

\* "i as f64" for an integer i.
FromInt(i) == Round(IF i < 0 THEN 1 ELSE 0, FromNat(IF i < 0 THEN -i ELSE i), 0)

One == F64(0, ExpBias - (SigBits - 1), 0, 0)
Two == F64(0, ExpBias - (SigBits - 1) + 1, 0, 0)

Neg(a) == F64(1 - a[1], a[2], a[3], a[4])

\* f64::abs
FAbs(a) == F64(0, a[2], a[3], a[4])

\* The sum of (-1)^sa * xa * 2^e and (-1)^sb * xb * 2^e.
AddAligned(sa, sb, xa, xb, e) ==
    IF sa # sb /\ xa = xb THEN Zero
    ELSE Round(IF sa = sb \/ WLess(xb, xa) THEN sa ELSE sb,
               IF sa = sb THEN WAdd(xa, xb)
               ELSE IF WLess(xb, xa) THEN WSub(xa, xb) ELSE WSub(xb, xa),
               e)

\* The sum of two finite values other than zero, of significands ma, mb and
\* exponents ea, eb.  An operand more than 64 binary places below the other
\* only decides the rounding, as one unit three places below the other's
\* last.
AddAt(sa, sb, ma, mb, ea, eb) ==
    AddAligned(sa, sb,
               IF ea - eb > 64 THEN WShl(ma, 3)
               ELSE IF eb - ea > 64 THEN WOne
               ELSE IF ea > eb THEN WShl(ma, ea - eb) ELSE ma,
               IF eb - ea > 64 THEN WShl(mb, 3)
               ELSE IF ea - eb > 64 THEN WOne
               ELSE IF eb > ea THEN WShl(mb, eb - ea) ELSE mb,
               IF ea - eb > 64 THEN ea - 3
               ELSE IF eb - ea > 64 THEN eb - 3
               ELSE IF ea < eb THEN ea ELSE eb)

\* The sum of two finite values.
AddFinite(a, b) ==
    IF IsZero(a) /\ IsZero(b) THEN SignedZero(IF a[1] = 1 /\ b[1] = 1 THEN 1 ELSE 0)
    ELSE IF IsZero(b) THEN a
    ELSE IF IsZero(a) THEN b
    ELSE AddAt(a[1], b[1], Significand(a), Significand(b), Exponent(a), Exponent(b))

\* a + b
Add(a, b) ==
    IF IsNaN(a) \/ IsNaN(b) THEN NaN
    ELSE IF IsInf(a) /\ IsInf(b) THEN (IF a[1] = b[1] THEN a ELSE NaN)
    ELSE IF IsInf(a) THEN a
    ELSE IF IsInf(b) THEN b
    ELSE AddFinite(a, b)

\* a - b
Sub(a, b) == Add(a, Neg(b))

\* Whether c is a power of two (and normal), and which.
IsPow2(c) == c[2] > 0 /\ c[2] < ExpMax /\ c[3] = 0 /\ c[4] = 0
Log2(c) == c[2] - (ExpBias - (SigBits - 1))

\* a * b.  A power of two multiplies exactly, up to the rounding of a
\* subnormal product.
Mul(a, b) ==
    IF IsNaN(a) \/ IsNaN(b) THEN NaN
    ELSE IF IsInf(a) \/ IsInf(b)
         THEN (IF IsZero(a) \/ IsZero(b) THEN NaN ELSE Inf((a[1] + b[1]) % 2))
    ELSE Round((a[1] + b[1]) % 2,
               IF IsPow2(b) THEN Significand(a)
               ELSE IF IsPow2(a) THEN Significand(b)
               ELSE WMul(Significand(a), Significand(b)),
               IF IsPow2(b) THEN Exponent(a) + Log2(b)
               ELSE IF IsPow2(a) THEN Exponent(b) + Log2(a)
               ELSE Exponent(a) + Exponent(b))

\* The quotient with its last bit set when a remainder is left, which rounds
\* as the exact quotient does.
DivSticky(q) == WAdd(WShl(q[1], 1), IF q[2] THEN WOne ELSE WZero)

\* The quotient of significands ma by mb that na and nb places bring to 53
\* bits, to 56 bits or more and the sticky bit.
DivNormal(s, ma, mb, na, nb, e) ==
    Round(s, DivSticky(WDiv(WShl(ma, na), WShl(mb, nb))), e + nb - na - (SigBits + 4))

\* The quotient of two finite values other than zero.  A power of two
\* divides exactly, up to the rounding of a subnormal quotient.
DivFinite(a, b) ==
    IF IsPow2(b)
    THEN Round((a[1] + b[1]) % 2, Significand(a), Exponent(a) - Log2(b))
    ELSE DivNormal((a[1] + b[1]) % 2, Significand(a), Significand(b),
                   SigBits - BitLen(Significand(a)), SigBits - BitLen(Significand(b)),
                   Exponent(a) - Exponent(b))

\* a / b
Div(a, b) ==
    IF IsNaN(a) \/ IsNaN(b) THEN NaN
    ELSE IF IsInf(a) THEN (IF IsInf(b) THEN NaN ELSE Inf((a[1] + b[1]) % 2))
    ELSE IF IsInf(b) THEN SignedZero((a[1] + b[1]) % 2)
    ELSE IF IsZero(b) THEN (IF IsZero(a) THEN NaN ELSE Inf((a[1] + b[1]) % 2))
    ELSE IF IsZero(a) THEN SignedZero((a[1] + b[1]) % 2)
    ELSE DivFinite(a, b)

\* a < b
Less(a, b) ==
    LET below == \/ a[2] < b[2]
                 \/ a[2] = b[2] /\ a[3] < b[3]
                 \/ a[2] = b[2] /\ a[3] = b[3] /\ a[4] < b[4]
    IN  IF IsNaN(a) \/ IsNaN(b) THEN FALSE
        ELSE IF IsZero(a) /\ IsZero(b) THEN FALSE
        ELSE IF a[1] # b[1] THEN a[1] = 1
        ELSE IF a = b THEN FALSE
        ELSE IF a[1] = 0 THEN below
        ELSE ~below

\* The f64 a decimal literal n/d denotes: the nearest to the quotient, which
\* is what the division of the two integers, both exact, rounds to.
Lit(n, d) == Div(FromInt(n), FromInt(d))

\* What a panic leaves in place of a value.
Panic == <<"panic">>

\* The outcomes of "(n - 1) as f64" for a usize n.  For n = 0 the subtraction
\* overflows: a build with overflow checks (debug) panics, one without
\* (release) wraps to 2^64 - 1, whose f64 is 2^64.  draw never gets there, a
\* field of zero width or height having no entry.
PredAsF64(n) ==
    IF n = 0 THEN {Panic, F64(0, ExpBias - (SigBits - 1) + 64, 0, 0)} ELSE {FromInt(n - 1)}

\* The outcome of a computation that has one.
Only(outcomes) == CHOOSE v \in outcomes : \A u \in outcomes : u = v

(* ------------------------------ state --------------------------------- *)

VARIABLES
    width, height,                  \* usize
    x_scale_min, x_scale_max,       \* f64
    y_scale_min, y_scale_max,       \* f64
    iteration_counts,               \* Vec<Vec<f64>>: rows of values
    frame_buffer,                   \* Vec<u8>, as its 4-byte chunks
    palette,                        \* Vec<LinSrgb>
    recalculate, redraw, drawing,   \* bool
    frame,                          \* the frame draw is given, as its 4-byte chunks
    pc,                             \* where the draw in progress is, "idle", or "panicked"
    calls,                          \* the test_pixel calls of the draw in progress, in order
    last,                           \* the latest command that returned
    nops,                           \* zoom and resize commands so far
    rolls                           \* randomize_palette calls so far

vars == <<width, height, x_scale_min, x_scale_max, y_scale_min, y_scale_max,
          iteration_counts, frame_buffer, palette, recalculate, redraw, drawing,
          frame, pc, calls, last, nops, rolls>>

viewport == <<width, height, x_scale_min, x_scale_max, y_scale_min, y_scale_max>>

(* ------------------------------ palette ------------------------------- *)

\* An f32 of the palette code, a literal or a random draw, whose value is
\* n/d rounded to f32: kept as a term, the palette crate's arithmetic not
\* being evaluated.
F32(n, d) == <<"f32", n, d>>

\* LinSrgb::new(r, g, b)
LinSrgb(r, g, b) == <<r, g, b>>

\* Gradient::from(stops).take(n).collect(): n colours, the j-th (from 0) the
\* gradient's colour at the j-th of n evenly spaced positions, kept as the
\* term <<"take", j, n, stops>>.
GradientTake(stops, n) == [j \in 1..n |-> <<"take", j - 1, n, stops>>]

rainbow_palette(n_colors) ==
    GradientTake(<< <<F32(0, 1),    LinSrgb(F32(1, 1), F32(0, 1), F32(0, 1))>>,
                    <<F32(5, 100),  LinSrgb(F32(0, 1), F32(1, 1), F32(0, 1))>>,
                    <<F32(5, 10),   LinSrgb(F32(0, 1), F32(0, 1), F32(1, 1))>>,
                    <<F32(15, 10),  LinSrgb(F32(0, 1), F32(1, 1), F32(0, 1))>>,
                    <<F32(25, 10),  LinSrgb(F32(1, 1), F32(0, 1), F32(0, 1))>> >>, n_colors)

\* The pool after the loop "for i in 1..15 { pool[i] = rng.gen_range(0.0..1.0) }"
\* of the k-th call, the generator giving every call values of its own:
\* pool[0] (here index 1) stays 0.0, the fourteen others are values of [0, 1).
Pool(k) == [i \in 1..PoolLen |-> IF i = 1 THEN F32(0, 1) ELSE F32(((i - 1) * k) % 4, 4)]

\* pool.pop() takes from the end: the first stop is made of pool[14], pool[13],
\* pool[12] (0-based), the last of pool[2], pool[1], pool[0].
random_palette(pool, n_colors) ==
    LET stop(j) == LinSrgb(pool[PoolLen - 3 * j], pool[PoolLen - 3 * j - 1], pool[PoolLen - 3 * j - 2])
    IN  GradientTake(<< <<F32(0, 1),   stop(0)>>,
                        <<F32(1, 10),  stop(1)>>,
                        <<F32(25, 10), stop(2)>>,
                        <<F32(6, 1),   stop(3)>>,
                        <<F32(10, 1),  stop(4)>> >>, n_colors)

\* "max_iterations as usize"
NColors == MaxIterations

\* The palette of new and of the reset key, and the one the k-th
\* randomize_palette call makes.
RainbowPalette == rainbow_palette(NColors)
RandomPalettes == [k \in 1..NumPools |-> random_palette(Pool(k), NColors)]

(* ------------------------- evaluator, compositor ---------------------- *)

\* normalize without the final "+ t_min".
normalize_no_offset(n, r_min, r_max, t_min, t_max) ==
    Mul(Div(Sub(n, r_min), Sub(r_max, r_min)), Sub(t_max, t_min))

normalize(n, r_min, r_max, t_min, t_max) ==
    Add(Mul(Div(Sub(n, r_min), Sub(r_max, r_min)), Sub(t_max, t_min)), t_min)

\* The pixel-to-plane mapping at the head of test_pixel, by outcome: the
\* point <<x0, y0>>, or Panic where width - 1 or height - 1 panics.
to_plane(px, py, w, h, x_min, x_max, y_min, y_max) ==
    { IF rw = Panic \/ rh = Panic
      THEN Panic
      ELSE << normalize(FromInt(px), Zero, rw, x_min, x_max),
              normalize(FromInt(py), Zero, rh, y_min, y_max) >> :
      rw \in PredAsF64(w), rh \in PredAsF64(h) }

\* An entry of iteration_counts.  vec![0.0; n] fills with ZeroCount.  What
\* the interior tests and the escape loop return for the plane point
\* (x0, y0) is a function of (x0, y0, max_iterations) alone and is kept as
\* the term EscapeTime(x0, y0), which names the point the entry was computed
\* from.  Equal terms are equal f64 values; two points can have the same
\* value (max_iterations for every point of the set), so unequal terms say
\* that the entries were computed from different points, not that the values
\* differ.
ZeroCount == <<"0.0", Zero, Zero>>
EscapeTime(x0, y0) == <<"escape_time", x0, y0>>

\* The outcomes of test_pixel: the value, or Panic.
test_pixel(px, py, w, h, x_min, x_max, y_min, y_max) ==
    { IF c = Panic THEN Panic ELSE EscapeTime(c[1], c[2]) :
      c \in to_plane(px, py, w, h, x_min, x_max, y_min, y_max) }

\* vec![vec![0.0; w]; h]
zero_counts(w, h) == [y \in 1..h |-> [x \in 1..w |-> ZeroCount]]

\* The loop of draw over iteration_counts (rows y, entries x).  An entry
\* exists only when w and h are positive, where test_pixel has one outcome.
evaluate_counts(w, h, x_min, x_max, y_min, y_max) ==
    [y \in 1..h |-> [x \in 1..w |->
        Only(test_pixel(x - 1, y - 1, w, h, x_min, x_max, y_min, y_max))]]

\* The (x, y) arguments of the test_pixel calls of that loop, in order.
evaluate_calls(w, h) == [i \in 1..(w * h) |-> <<(i - 1) % w, (i - 1) \div w>>]

\* A 4-byte chunk of the frame buffer.  vec![0xff; n] fills with Fill.  The
\* chunk written for a value v is a function of v and of the palette (black
\* for max_iterations, else the blend of palette[floor v] and
\* palette[floor v + 1] by the fraction of v); it is kept as the term
\* WrittenFrom(v, palette), which names the entry and the palette the chunk
\* was written from.  Equal terms are equal bytes.  The bytes of unequal
\* terms can be equal too: black is black under every palette, and the
\* blend is cut to 8 bits a channel.  Unequal terms say that the chunks were
\* written from different entries or palettes, not that their bytes differ.
Fill == <<"0xff", ZeroCount, <<>>>>
WrittenFrom(v, pal) == <<"written from", v, pal>>

\* The entry and the palette a chunk was written from.
chunk_entry(c) == c[2]
chunk_palette(c) == c[3]

\* vec![0xff as u8; width * height * 4]
fill_buffer(w, h) == [i \in 1..(w * h) |-> Fill]

\* The entry of counts the i-th chunk (from 1) of the frame buffer shows.
entry(counts, w, i) == counts[((i - 1) \div w) + 1][((i - 1) % w) + 1]

\* Whether the chunk of a value v can be made with a palette of n colours,
\* and whether "self.palette[iterations + 1]" can panic for it.  A value
\* equal to max_iterations is drawn black, with no index.  Else the index is
\* floor(v) as usize.  It is 0 for 0.0 and for the NaN or -inf that
\* test_pixel returns for a plane point that is not finite: a palette of two
\* colours is needed and enough.  For a finite plane point the value is
\* what the escape loop makes it, max_iterations or one whose index lies in
\* 0..max_iterations - 1, and an index of n - 1 or more is out of range:
\* the model, not evaluating the loop, keeps both outcomes.
index_known(v) == v = ZeroCount \/ ~IsFinite(v[2]) \/ ~IsFinite(v[3])
can_index(v, n) == index_known(v) => n >= 2
can_panic(v, n) == IF index_known(v) THEN n < 2 ELSE n <= MaxIterations

\* The frame buffer after the loop of draw_to_frame_buffer has written the
\* first k chunks.
written(fb, counts, w, pal, k) ==
    [i \in 1..Len(fb) |-> IF i <= k THEN WrittenFrom(entry(counts, w, i), pal) ELSE fb[i]]

\* Whether the loop can end, every chunk made, and whether it can panic, at
\* a chunk whose index can be out of range, those before it made.
can_end(fb, counts, w, pal) ==
    \A i \in 1..Len(fb) : can_index(entry(counts, w, i), Len(pal))
can_stop(fb, counts, w, pal) ==
    \E k \in 1..Len(fb) :
        /\ \A i \in 1..(k - 1) : can_index(entry(counts, w, i), Len(pal))
        /\ can_panic(entry(counts, w, k), Len(pal))

\* The frame buffer a panic of the loop leaves, written(.., k - 1) for the
\* chunk k it stopped at: the chunks before k are new, the others as they
\* were.  Which chunk that is stays open, and each chunk is kept as the term
\* PartlyWritten of the two.
PartlyWritten(new, old) == <<"new or as before", new, old>>
partly_written(fb, counts, w, pal) ==
    [i \in 1..Len(fb) |-> PartlyWritten(WrittenFrom(entry(counts, w, i), pal), fb[i])]

\* The outcomes of draw_to_frame_buffer, <<frame buffer, whether it
\* panicked>>.
draw_to_frame_buffer(fb, counts, w, pal) ==
    { o \in { <<written(fb, counts, w, pal, Len(fb)), FALSE>>,
              <<partly_written(fb, counts, w, pal), TRUE>> } :
        IF o[2] THEN can_stop(fb, counts, w, pal) ELSE can_end(fb, counts, w, pal) }

\* The frame of the window's pixel buffer, pixels.get_frame(), for a buffer
\* of w by h pixels: w * h chunks.  What it holds before a draw writes it is
\* kept as the term Blank.
Blank == <<"blank", ZeroCount, <<>>>>
pixels_frame(w, h) == [i \in 1..(w * h) |-> Blank]

(* ------------------------------ inputs -------------------------------- *)

\* Sizes a well-formed new or resize passes, and those a malformed one adds.
Sizes == 1..MaxDim
AnySizes == 0..MaxDim

\* Pointer positions in pixel space, f32 values that "as f64" keeps as they
\* are: the top-left corner and the centre.
Corner == <<Zero, Zero>>
Centre(w, h) == <<Div(FromInt(w), Two), Div(FromInt(h), Two)>>

\* Zooms <<coords, factor>>: main.rs passes the pointer position and 0.5
\* (left button, zoom in) or 2.0 (right button, zoom out).
ZoomIn == Lit(1, 2)
ZoomOut == Two
Zooms(w, h) == {Corner, Centre(w, h)} \X {ZoomIn, ZoomOut}

\* A malformed zoom passes zero or a negative factor.
BadZooms(w, h) == {<<Corner, Zero>>, <<Centre(w, h), Neg(One)>>}

(* ------------------------------ actions ------------------------------- *)

\* The bounds new writes: -2.00, 0.47, -1.12, 1.12.
DefaultScale == <<Lit(-200, 100), Lit(47, 100), Lit(-112, 100), Lit(112, 100)>>

\* MandelbrotSet::new(w, h)
New(w, h) ==
    /\ width = w
    /\ height = h
    /\ \E b \in {DefaultScale} :
          /\ x_scale_min = b[1]
          /\ x_scale_max = b[2]
          /\ y_scale_min = b[3]
          /\ y_scale_max = b[4]
    /\ iteration_counts = zero_counts(w, h)
    /\ frame_buffer = fill_buffer(w, h)
    /\ palette = RainbowPalette
    /\ recalculate = TRUE
    /\ redraw = TRUE
    /\ drawing = FALSE
    /\ frame = pixels_frame(w, h)
    /\ pc = "idle"
    /\ calls = <<>>
    /\ last = "new"
    /\ nops = 0
    /\ rolls = 0

\* main.rs constructs one set and one pixel buffer, both of a fixed size
\* (WIDTH x HEIGHT).
Init == New(MaxDim, MaxDim)

\* randomize_palette marking both flags, as zoom and resize do.
RandomizePaletteMarksBoth ==
    /\ pc = "idle"
    /\ rolls < NumPools
    /\ palette' = RandomPalettes[rolls + 1]
    /\ redraw' = TRUE
    /\ recalculate' = TRUE
    /\ last' = "randomize_palette"
    /\ rolls' = rolls + 1
    /\ UNCHANGED <<viewport, iteration_counts, frame_buffer, drawing, frame, pc, calls, nops>>

RandomizePalette ==
    /\ pc = "idle"
    /\ rolls < NumPools
    /\ palette' = RandomPalettes[rolls + 1]
    /\ redraw' = TRUE
    /\ last' = "randomize_palette"
    /\ rolls' = rolls + 1
    /\ UNCHANGED <<viewport, iteration_counts, frame_buffer, recalculate, drawing,
                   frame, pc, calls, nops>>

\* The four scale bounds, b = <<x_scale_min, x_scale_max, y_scale_min, y_scale_max>>.
scale == <<x_scale_min, x_scale_max, y_scale_min, y_scale_max>>

x_range(b) == FAbs(Sub(b[2], b[1]))

y_range(b) == FAbs(Sub(b[4], b[3]))

\* "(ratio * range) - range"
range_diff(ratio, range) == Sub(Mul(ratio, range), range)

\* The bounds b with dx taken from x_min and added to x_max, dy from y_min
\* and to y_max.
widen(b, dx, dy) == <<Sub(b[1], dx), Add(b[2], dx), Sub(b[3], dy), Add(b[4], dy)>>

\* resize_scaling_factors moving each bound by the whole difference, not half.
resize_scaling_factors_whole_diff(cur_w, cur_h, b, w, h) ==
    widen(b, range_diff(Div(FromInt(w), FromInt(cur_w)), x_range(b)),
             range_diff(Div(FromInt(h), FromInt(cur_h)), y_range(b)))

\* The bounds resize_scaling_factors(w, h) assigns when the set is cur_w by
\* cur_h with bounds b: each ratio is new size / current size, each bound
\* moves by half of (ratio * range) - range.
resize_scaling_factors(cur_w, cur_h, b, w, h) ==
    widen(b, Div(range_diff(Div(FromInt(w), FromInt(cur_w)), x_range(b)), Two),
             Div(range_diff(Div(FromInt(h), FromInt(cur_h)), y_range(b)), Two))

\* The viewport resize(w, h) assigns when the viewport is v: the bounds of
\* resize_scaling_factors, called with the current width and height, then
\* the new width and height.
resize_viewport(v, w, h) ==
    <<w, h>> \o resize_scaling_factors(v[1], v[2], <<v[3], v[4], v[5], v[6]>>, w, h)

\* resize leaving the recalculate flag as it is.
ResizeKeepsRecalculate(w, h) ==
    /\ pc = "idle"
    /\ nops < MaxOps
    /\ \E v \in {resize_viewport(viewport, w, h)} :
          /\ width' = v[1]
          /\ height' = v[2]
          /\ x_scale_min' = v[3]
          /\ x_scale_max' = v[4]
          /\ y_scale_min' = v[5]
          /\ y_scale_max' = v[6]
    /\ frame_buffer' = fill_buffer(w, h)
    /\ redraw' = TRUE
    /\ frame' = pixels_frame(w, h)
    /\ last' = "resize"
    /\ nops' = nops + 1
    /\ UNCHANGED <<iteration_counts, palette, recalculate, drawing, pc, calls, rolls>>

\* The window resized to w by h (main.rs): pixels.resize_buffer(w, h), then
\* resize(w, h).
Resize(w, h) ==
    /\ pc = "idle"
    /\ nops < MaxOps
    /\ \E v \in {resize_viewport(viewport, w, h)} :
          /\ width' = v[1]
          /\ height' = v[2]
          /\ x_scale_min' = v[3]
          /\ x_scale_max' = v[4]
          /\ y_scale_min' = v[5]
          /\ y_scale_max' = v[6]
    /\ frame_buffer' = fill_buffer(w, h)
    /\ recalculate' = TRUE
    /\ redraw' = TRUE
    /\ frame' = pixels_frame(w, h)
    /\ last' = "resize"
    /\ nops' = nops + 1
    /\ UNCHANGED <<iteration_counts, palette, drawing, pc, calls, rolls>>

\* The reset key (main.rs): resize(WIDTH, HEIGHT), then a new generator,
\* with the bounds and the zeroed field of new, and the rainbow palette.  The
\* pixel buffer is not resized.
Reset ==
    /\ pc = "idle"
    /\ width' = MaxDim
    /\ height' = MaxDim
    /\ frame_buffer' = fill_buffer(MaxDim, MaxDim)
    /\ recalculate' = TRUE
    /\ redraw' = TRUE
    /\ \E b \in {DefaultScale} :
          /\ x_scale_min' = b[1]
          /\ x_scale_max' = b[2]
          /\ y_scale_min' = b[3]
          /\ y_scale_max' = b[4]
    /\ iteration_counts' = zero_counts(MaxDim, MaxDim)
    /\ palette' = RainbowPalette
    /\ last' = "reset"
    /\ UNCHANGED <<drawing, frame, pc, calls, nops, rolls>>

\* The bounds at dx on each side of mx and dy on each side of my.
around(mx, my, dx, dy) == <<Sub(mx, dx), Add(mx, dx), Sub(my, dy), Add(my, dy)>>

\* The bounds zoom(coords, factor) assigns when the set is cur_w by cur_h
\* with bounds b: the new midpoint is the plane point of coords, the new
\* ranges are the current ones times factor.
zoom_bounds(cur_w, cur_h, b, coords, factor) ==
    around(normalize(coords[1], Zero, FromInt(cur_w), b[1], b[2]),
           normalize(coords[2], Zero, FromInt(cur_h), b[3], b[4]),
           Div(Mul(x_range(b), factor), Two),
           Div(Mul(y_range(b), factor), Two))

\* zoom setting neither flag.
ZoomMarksNothing(coords, factor) ==
    /\ pc = "idle"
    /\ nops < MaxOps
    /\ \E b \in {zoom_bounds(width, height, scale, coords, factor)} :
          /\ x_scale_min' = b[1]
          /\ x_scale_max' = b[2]
          /\ y_scale_min' = b[3]
          /\ y_scale_max' = b[4]
    /\ last' = "zoom"
    /\ nops' = nops + 1
    /\ UNCHANGED <<width, height, iteration_counts, frame_buffer, palette, recalculate,
                   redraw, drawing, frame, pc, calls, rolls>>

Zoom(coords, factor) ==
    /\ pc = "idle"
    /\ nops < MaxOps
    /\ \E b \in {zoom_bounds(width, height, scale, coords, factor)} :
          /\ x_scale_min' = b[1]
          /\ x_scale_max' = b[2]
          /\ y_scale_min' = b[3]
          /\ y_scale_max' = b[4]
    /\ recalculate' = TRUE
    /\ redraw' = TRUE
    /\ last' = "zoom"
    /\ nops' = nops + 1
    /\ UNCHANGED <<width, height, iteration_counts, frame_buffer, palette, drawing,
                   frame, pc, calls, rolls>>

\* draw going to its redraw block first, past the recalculate block.
DrawBeginRedrawFirst(f) ==
    /\ pc = "idle"
    /\ frame' = f
    /\ drawing' = TRUE
    /\ calls' = <<>>
    /\ pc' = "redraw"
    /\ UNCHANGED <<viewport, iteration_counts, frame_buffer, palette, recalculate,
                   redraw, last, nops, rolls>>

\* draw(f), entry: self.drawing = true.
DrawBegin(f) ==
    /\ pc = "idle"
    /\ frame' = f
    /\ drawing' = TRUE
    /\ calls' = <<>>
    /\ pc' = "recalculate"
    /\ UNCHANGED <<viewport, iteration_counts, frame_buffer, palette, recalculate,
                   redraw, last, nops, rolls>>

\* The recalculate block never clearing the flag.
DrawRecalculateKeepsFlag ==
    /\ pc = "recalculate"
    /\ IF recalculate
       THEN /\ iteration_counts' = evaluate_counts(width, height, x_scale_min,
                                        x_scale_max, y_scale_min, y_scale_max)
            /\ calls' = evaluate_calls(width, height)
       ELSE UNCHANGED <<iteration_counts, calls>>
    /\ pc' = "redraw"
    /\ UNCHANGED <<viewport, recalculate, frame_buffer, palette, redraw, drawing, frame,
                   last, nops, rolls>>

\* draw, "if self.recalculate { ... }"
DrawRecalculate ==
    /\ pc = "recalculate"
    /\ IF recalculate
       THEN /\ recalculate' = FALSE
            /\ iteration_counts' = evaluate_counts(width, height, x_scale_min,
                                        x_scale_max, y_scale_min, y_scale_max)
            /\ calls' = evaluate_calls(width, height)
       ELSE UNCHANGED <<recalculate, iteration_counts, calls>>
    /\ pc' = "redraw"
    /\ UNCHANGED <<viewport, frame_buffer, palette, redraw, drawing, frame, last, nops,
                   rolls>>

\* draw, "if self.redraw { ... }".  When draw_to_frame_buffer panics, draw
\* does not return: redraw is clear, the frame buffer is written in part,
\* the frame is as it was and drawing stays set.
DrawRedraw ==
    /\ pc = "redraw"
    /\ IF redraw
       THEN /\ redraw' = FALSE
            /\ \E o \in draw_to_frame_buffer(frame_buffer, iteration_counts, width, palette) :
                  /\ frame_buffer' = o[1]
                  /\ pc' = IF o[2] THEN "redraw_panicked" ELSE "copy"
       ELSE /\ pc' = "copy"
            /\ UNCHANGED <<redraw, frame_buffer>>
    /\ UNCHANGED <<viewport, iteration_counts, palette, recalculate, drawing, frame,
                   calls, last, nops, rolls>>

\* draw, exit: frame.copy_from_slice(&self.frame_buffer); self.drawing = false.
\* copy_from_slice panics when the two lengths differ: draw does not return,
\* the frame is as it was and drawing stays set.
DrawCopy ==
    /\ pc = "copy"
    /\ IF Len(frame) = Len(frame_buffer)
       THEN /\ frame' = frame_buffer
            /\ drawing' = FALSE
            /\ pc' = "idle"
            /\ calls' = <<>>
            /\ last' = "draw"
       ELSE /\ pc' = "panicked"
            /\ UNCHANGED <<frame, drawing, calls, last>>
    /\ UNCHANGED <<viewport, iteration_counts, frame_buffer, palette, recalculate,
                   redraw, nops, rolls>>

\* main.rs draws into the frame of its pixel buffer.
Draw == DrawBegin(frame) \/ DrawRecalculate \/ DrawRedraw \/ DrawCopy

\* The events of main.rs, with well-formed arguments.
Next ==
    \/ Reset
    \/ RandomizePalette
    \/ \E w \in Sizes, h \in Sizes : Resize(w, h)
    \/ \E z \in Zooms(width, height) : Zoom(z[1], z[2])
    \/ Draw

Spec == Init /\ [][Next]_vars

\* A resize to a zero width or height.
MalformedResize == \E w \in AnySizes, h \in AnySizes : (w = 0 \/ h = 0) /\ Resize(w, h)

\* A zoom by a zero or negative factor.
MalformedZoom == \E z \in BadZooms(width, height) : Zoom(z[1], z[2])

\* A draw into a frame of another length than the frame buffer's.
MalformedDraw ==
    \E n \in 0..(2 * MaxDim * MaxDim) :
        n # Len(frame_buffer) /\ DrawBegin([i \in 1..n |-> Blank])

\* The commands with any arguments the signatures admit.
NextAny == Next \/ MalformedResize \/ MalformedZoom \/ MalformedDraw

SpecAny == Init /\ [][NextAny]_vars

(* ------------------------------ claims -------------------------------- *)

\* The iteration field the evaluator computes from the current viewport:
\* "iteration_counts = FreshCounts" says that every entry was computed from
\* the plane point the current viewport gives its pixel.
FreshCounts ==
    evaluate_counts(width, height, x_scale_min, x_scale_max, y_scale_min, y_scale_max)

\* The frame buffer the compositor builds from the current field and
\* palette: "frame_buffer = FreshBuffer" says that every chunk was written
\* from the current entry of its pixel and the current palette, and so holds
\* the bytes draw_to_frame_buffer would write now.  A buffer built from
\* another field or palette is not FreshBuffer, whatever its bytes.
FreshBuffer == written(frame_buffer, iteration_counts, width, palette, Len(frame_buffer))

\* iteration_counts has h rows of w entries.
CountsAre(w, h) ==
    /\ Len(iteration_counts) = h
    /\ \A y \in 1..Len(iteration_counts) : Len(iteration_counts[y]) = w

\* C1: a draw that follows a draw that returned, with no zoom, resize, reset
\* or randomize_palette in between, makes no test_pixel call and hands the
\* caller the frame the first draw handed over: when it reaches its copy,
\* the buffer it copies equals the caller's frame from the first draw.
C1_RepeatedDrawIsCached ==
    (last = "draw" /\ pc # "idle") =>
        /\ calls = <<>>
        /\ pc = "copy" => frame_buffer = frame

\* C1 witness: a second draw, after a zoom or resize, at its copy.
C1_Witness ==
    /\ last = "draw" /\ pc = "copy" /\ nops > 0
    /\ Len(frame) > 0 /\ frame[1] # Blank

\* C2: in a draw, the redraw block starts only when the iteration field has
\* been computed from the current viewport and recalculate is clear, the copy
\* starts only when also the frame buffer has been built from that field and
\* the current palette and redraw is clear, and the frame a draw returns is
\* that buffer.
C2_RecalculateThenRedrawThenCopy ==
    /\ pc \in {"redraw", "copy"} => (~recalculate /\ iteration_counts = FreshCounts)
    /\ pc = "copy" => (~redraw /\ frame_buffer = FreshBuffer)
    /\ (pc = "idle" /\ last = "draw") =>
            (frame = frame_buffer /\ frame_buffer = FreshBuffer /\ iteration_counts = FreshCounts)

\* C2 witness: a draw at its copy that recomputed the field of a viewport a
\* zoom or resize had changed.
C2_Witness ==
    pc = "copy" /\ calls # <<>> /\ nops > 0 /\ last # "draw"

\* C4: randomize_palette sets redraw and leaves recalculate, the viewport
\* and the iteration field as they are; the draw that follows it, when
\* recalculate is clear, calls test_pixel never and keeps the field, and
\* its redraw block, when it ends, has rebuilt every chunk of the frame
\* buffer from the field and the new palette.
C4_RandomizeMarksRedrawOnly ==
    [][ /\ (pc = "idle" /\ pc' = "idle" /\ last' = "randomize_palette") =>
              (redraw' /\ UNCHANGED <<recalculate, viewport, iteration_counts>>)
        /\ (last = "randomize_palette" /\ pc = "recalculate" /\ ~recalculate) =>
              (calls' = <<>> /\ UNCHANGED iteration_counts)
        /\ (last = "randomize_palette" /\ pc = "redraw") =>
              (redraw /\ (pc' = "copy" => frame_buffer' = FreshBuffer))
      ]_vars

\* C4 witness: the draw after a randomize_palette that replaced a random
\* palette, at its copy, with no test_pixel call: the frame is the one the
\* draw before wrote from the palette before, and the buffer has been
\* rebuilt from the same entries and the new palette.
C4_Witness ==
    /\ last = "randomize_palette" /\ pc = "copy" /\ calls = <<>> /\ rolls > 1
    /\ Len(frame) = Len(frame_buffer) /\ Len(frame) > 0
    /\ frame[1] # Blank
    /\ chunk_palette(frame[1]) = RandomPalettes[rolls - 1]
    /\ palette = RandomPalettes[rolls]
    /\ \A i \in 1..Len(frame) :
          /\ chunk_palette(frame_buffer[i]) = palette
          /\ chunk_entry(frame_buffer[i]) = chunk_entry(frame[i])

\* C5: a malformed command (a resize to a zero width or height, a zoom by a
\* zero or negative factor) changes neither the viewport, nor the buffers,
\* nor the palette, nor the dirty flags.
C5_MalformedCommandChangesNothing ==
    [][(MalformedResize \/ MalformedZoom) =>
          UNCHANGED <<viewport, iteration_counts, frame_buffer, palette, recalculate, redraw>>]_vars

\* C6: the palette has max_iterations + 1 entries, after new and after
\* every randomize_palette.
C6_PaletteHasMaxIterationsPlusOne == Len(palette) = MaxIterations + 1

\* C7 as claimed: between commands the iteration field has height rows of
\* width entries.
C7_FieldHasViewportSize == pc = "idle" => CountsAre(width, height)

\* C7 as amended: whenever recalculate is clear, and so after every draw, the
\* iteration field has height rows of width entries.
C7_CleanFieldHasViewportSize == ~recalculate => CountsAre(width, height)

\* C7 witness: a field drawn after a resize to another size.
C7_Witness ==
    last = "draw" /\ pc = "idle" /\ ~recalculate /\ (width # MaxDim \/ height # MaxDim)

\* What "within floating-point tolerance" is taken to be: two values differ
\* by at most 2^-40 of the extent |lo| + |hi| of the bounds compared with.
Tolerance == F64(0, ExpBias - (SigBits - 1) - 40, 0, 0)
Close(a, b, lo, hi) ==
    /\ IsFinite(a)
    /\ IsFinite(b)
    /\ ~Less(Mul(Tolerance, Add(FAbs(lo), FAbs(hi))), FAbs(Sub(a, b)))

\* The plane points test_pixel computes for the first and the last pixel.
FirstPoint ==
    Only(to_plane(0, 0, width, height, x_scale_min, x_scale_max, y_scale_min, y_scale_max))
LastPoint ==
    Only(to_plane(width - 1, height - 1, width, height,
                  x_scale_min, x_scale_max, y_scale_min, y_scale_max))

\* Both points are the bounds exactly, and so are those the evaluator used
\* for the two entries of an up-to-date field.
CornersAreBounds ==
    /\ FirstPoint = <<x_scale_min, y_scale_min>>
    /\ LastPoint = <<x_scale_max, y_scale_max>>
    /\ ~recalculate =>
          /\ iteration_counts[1][1] = EscapeTime(x_scale_min, y_scale_min)
          /\ iteration_counts[height][width] = EscapeTime(x_scale_max, y_scale_max)

\* The first point is the lower bounds exactly; the last is
\* (max - min) + min in f64, which is the upper bounds up to rounding.
CornersNearBounds ==
    LET p == FirstPoint
        q == LastPoint
    IN  /\ p = <<x_scale_min, y_scale_min>>
        /\ q = <<Add(Sub(x_scale_max, x_scale_min), x_scale_min),
                 Add(Sub(y_scale_max, y_scale_min), y_scale_min)>>
        /\ Close(q[1], x_scale_max, x_scale_min, x_scale_max)
        /\ Close(q[2], y_scale_max, y_scale_min, y_scale_max)
        /\ ~recalculate =>
              /\ iteration_counts[1][1] = EscapeTime(p[1], p[2])
              /\ iteration_counts[height][width] = EscapeTime(q[1], q[2])

\* C8 as claimed: for width > 0 and height > 0, pixel (0, 0) maps to
\* (x_min, y_min) and pixel (width - 1, height - 1) to (x_max, y_max).
C8_CornersMapToBounds == (width > 0 /\ height > 0) => CornersAreBounds

\* C8 as amended: for width > 1 and height > 1, pixel (0, 0) maps to
\* (x_min, y_min) exactly and pixel (width - 1, height - 1) to
\* ((x_max - x_min) + x_min, (y_max - y_min) + y_min), within tolerance of
\* (x_max, y_max); along an axis of one pixel the mapping divides zero by
\* zero and gives NaN.
C8_CornersMapNearBoundsAboveOne ==
    /\ (width > 1 /\ height > 1) => CornersNearBounds
    /\ width = 1 => IsNaN(FirstPoint[1])
    /\ height = 1 => IsNaN(FirstPoint[2])

\* C8 witness: an evaluated field of a zoomed or resized viewport of more
\* than one pixel along each axis, whose last pixel is not at x_max: the
\* last entry was computed from another point than (x_max, y_max).
C8_Witness ==
    /\ width > 1 /\ height > 1 /\ ~recalculate /\ nops > 0 /\ last = "draw"
    /\ LastPoint[1] # x_scale_max
    /\ iteration_counts[height][width] # EscapeTime(x_scale_max, y_scale_max)

\* The viewport after a resize to (w, h) and a resize back to the current
\* size.
ThereAndBack(w, h) == resize_viewport(resize_viewport(viewport, w, h), width, height)

\* b is scale within tolerance, bound by bound.
CloseToScale(b) ==
    /\ Close(b[1], x_scale_min, x_scale_min, x_scale_max)
    /\ Close(b[2], x_scale_max, x_scale_min, x_scale_max)
    /\ Close(b[3], y_scale_min, y_scale_min, y_scale_max)
    /\ Close(b[4], y_scale_max, y_scale_min, y_scale_max)

\* A viewport as new, zoom or resize left it, before the first draw.  zoom
\* and resize read the viewport alone and reset gives the viewport of new,
\* so every viewport the commands reach they also reach before the first
\* draw, the first randomize_palette and the first reset.
FreshViewport ==
    /\ pc = "idle" /\ last \in {"new", "zoom", "resize"}
    /\ calls = <<>> /\ frame = pixels_frame(width, height)
    /\ iteration_counts = zero_counts(MaxDim, MaxDim) /\ palette = RainbowPalette

\* C9 as claimed: from every viewport new, zoom or resize leaves, of size
\* (w0, h0), a resize to any (w, h) followed by a resize to (w0, h0) gives
\* the bounds, the width and the height back.
C9_ResizeRoundTrip ==
    FreshViewport => \A w \in Sizes, h \in Sizes : ThereAndBack(w, h) = viewport

\* C9 as amended: that round trip gives the width and the height back, and
\* the bounds within tolerance, not bit for bit.
C9_ResizeRoundTripWithinTolerance ==
    FreshViewport => \A w \in Sizes, h \in Sizes :
        \E v \in {ThereAndBack(w, h)} :
            /\ v[1] = width
            /\ v[2] = height
            /\ CloseToScale(<<v[3], v[4], v[5], v[6]>>)

\* C9 witness: a viewport a resize from the initial one left, from which the
\* resize back gives the initial size and bounds that are the initial ones
\* within tolerance and are not the initial ones.
C9_Witness ==
    /\ FreshViewport /\ last = "resize" /\ (width # MaxDim \/ height # MaxDim)
    /\ \E v \in {resize_viewport(viewport, MaxDim, MaxDim)} :
           /\ v[1] = MaxDim /\ v[2] = MaxDim
           /\ <<v[3], v[4], v[5], v[6]>> # DefaultScale
           /\ Close(v[3], DefaultScale[1], DefaultScale[1], DefaultScale[2])
           /\ Close(v[4], DefaultScale[2], DefaultScale[1], DefaultScale[2])
           /\ Close(v[5], DefaultScale[3], DefaultScale[3], DefaultScale[4])
           /\ Close(v[6], DefaultScale[4], DefaultScale[3], DefaultScale[4])

\* C10: between commands, and after a draw that panicked at its copy, a clear
\* recalculate flag means the iteration field was computed from the current
\* viewport, and a clear redraw flag means the frame buffer was built from
\* the current field and palette.
C10_FlagsCoherent ==
    pc \in {"idle", "panicked"} =>
        /\ ~recalculate => iteration_counts = FreshCounts
        /\ ~redraw => frame_buffer = FreshBuffer

\* C10 witness: both flags clear after a zoom or resize and with a palette
\* of randomize_palette.
C10_Witness ==
    /\ pc = "idle" /\ ~recalculate /\ ~redraw
    /\ nops > 0 /\ rolls > 0 /\ palette = RandomPalettes[rolls]

====
